---- MODULE Spec2Model ----
(***************************************************************************)
(* API account handling of the Passenger agent                             *)
(* (src/agent/Shared/ApiAccountUtils.h): the description-string parser,    *)
(* the validator of the authorizations array, the normalizer, the          *)
(* ApiAccount constructor and the ApiAccountDatabase.                      *)
(*                                                                         *)
(* Strings are sequences of tokens.  A token is either the separator ":"   *)
(* or a colon-free chunk of characters; the chunks begin with different    *)
(* characters, so two token sequences are equal exactly when the strings   *)
(* they spell are equal.                                                   *)
(***************************************************************************)
EXTENDS Integers, Sequences, FiniteSets, TLC

VARIABLES
    description,     \* parser run: the description string handed to the parser
    parsed,          \* parser run: outcome of parseApiAccountDescription
    config,          \* config[key]: null or the authorizations array
    validation,      \* outcome of validateAuthorizationsField
    outputErrors,    \* the caller's error vector
    normalized,      \* outcome of normalizeApiAccountsJson(config)
    renormalized,    \* outcome of normalizeApiAccountsJson on that result
    authorizations,  \* constructor run: the normalized array
    files,           \* constructor run: the password files on disk
    built,           \* constructor run: outcome of ApiAccountDatabase(authorizations)
    storage,         \* database run: the two element buffers of the vectors
    database,        \* database run: which buffer each ApiAccountDatabase owns
    readers          \* database run: position of every thread inside lookup() or empty()

vars == <<description, parsed, config, validation, outputErrors, normalized,
          renormalized, authorizations, files, built, storage, database,
          readers>>

parserVars == <<description, parsed>>
configVars == <<config, validation, outputErrors, normalized, renormalized>>
ctorVars   == <<authorizations, files, built>>
dbVars     == <<storage, database, readers>>

----------------------------------------------------------------------------
(* Bounds *)

MaxLen == 4          \* longest description string, in tokens
MaxEntries == 2      \* longest authorizations array
MaxRecords == 2      \* longest normalized array handed to the constructor
MaxAccounts == 2     \* largest populated database
MaxOther == 1        \* largest database on the other side of a swap

----------------------------------------------------------------------------
(* Strings *)

Alphabet == {":", "api", "readonly", "full", "u", "/", "p"}

RECURSIVE StringsOfLen(_)
StringsOfLen(n) ==
    IF n = 0 THEN {<<>>}
    ELSE {Append(s, c) : s \in StringsOfLen(n - 1), c \in Alphabet}

Strings == UNION {StringsOfLen(n) : n \in 0..MaxLen}

Str(s) == [type |-> "string", str |-> s]
Number == [type |-> "int", str |-> <<"1">>]   \* asString() of the number 1
Absent == [type |-> "absent", str |-> <<>>]

EmptyObject == [k \in {} |-> Absent]

\* split(str, sep, output): nothing for the empty string, otherwise the
\* pieces between the separators (an empty piece after a trailing separator).
RECURSIVE splitImpl(_, _)
splitImpl(str, sep) ==
    IF \A i \in 1..Len(str) : str[i] # sep
    THEN <<str>>
    ELSE LET pos == CHOOSE i \in 1..Len(str) :
                        /\ str[i] = sep
                        /\ \A j \in 1..(i - 1) : str[j] # sep
         IN <<SubSeq(str, 1, pos - 1)>>
                \o splitImpl(SubSeq(str, pos + 1, Len(str)), sep)

split(str, sep) == IF str = <<>> THEN <<>> ELSE splitImpl(str, sep)

----------------------------------------------------------------------------
(* parseApiAccountDescription *)

NoException == "none"
ArgumentException == "ArgumentException"

LevelMessage == "'level' field must be either 'full' or 'readonly'"
ApiMessage == "the username 'api' is not allowed"

Returned(json) == [exception |-> NoException, what |-> "", json |-> json]
Thrown(type, what) == [exception |-> type, what |-> what, json |-> EmptyObject]

Account3(username, password_file, level) ==
    [k \in {"username", "password_file", "level"} |->
        IF k = "username" THEN Str(username)
        ELSE IF k = "password_file" THEN Str(password_file)
        ELSE Str(level)]

\* Variant: the check of the username is made for the two-segment form only.
parseCheckingApiInShortFormOnly(desc) ==
    LET args == split(desc, ":")
    IN  IF Len(args) = 2
        THEN IF args[1] = <<"api">>
             THEN Thrown(ArgumentException, ApiMessage)
             ELSE Returned(Account3(args[1], args[2], <<"full">>))
        ELSE IF Len(args) = 3
        THEN IF args[1] = <<"full">> \/ args[1] = <<"readonly">>
             THEN Returned(Account3(args[2], args[3], args[1]))
             ELSE Thrown(ArgumentException, LevelMessage)
        ELSE Thrown(ArgumentException, "")

parseApiAccountDescription(desc) ==
    LET args == split(desc, ":")
        json == IF Len(args) = 2
                THEN Account3(args[1], args[2], <<"full">>)
                ELSE Account3(args[2], args[3], args[1])
    IN  IF Len(args) # 2 /\ Len(args) # 3
        THEN Thrown(ArgumentException, "")
        ELSE IF Len(args) = 3 /\ args[1] # <<"full">> /\ args[1] # <<"readonly">>
        THEN Thrown(ArgumentException, LevelMessage)
        ELSE IF json["username"].str = <<"api">>
        THEN Thrown(ArgumentException, ApiMessage)
        ELSE Returned(json)

NotRun == [exception |-> "not run", what |-> "", json |-> EmptyObject]

----------------------------------------------------------------------------
(* JSON entries of the authorizations array *)

Keys == {"username", "password", "password_file", "level", "note"}

StringEntry(s) == [kind |-> "string", str |-> s, members |-> EmptyObject]
ObjectEntry(m) == [kind |-> "object", str |-> <<>>, members |-> m]
NumberEntry == [kind |-> "int", str |-> <<"1">>, members |-> EmptyObject]

isString(auth) == auth.kind = "string"
isObject(auth) == auth.kind = "object"
isMember(auth, k) == k \in DOMAIN auth.members

NullValue == [type |-> "null", items |-> <<>>]
Array(items) == [type |-> "array", items |-> items]
isNull(value) == value.type = "null"

\* The object that has exactly the members the choice c does not leave out.
ObjectOf(c) == [k \in {x \in DOMAIN c : c[x] # Absent} |-> c[k]]

ObjectsOver(U, P, F, L, N) ==
    {ObjectEntry(ObjectOf([username |-> u, password |-> p, password_file |-> f,
                           level |-> l, note |-> n])) :
        u \in U, p \in P, f \in F, l \in L, n \in N}

----------------------------------------------------------------------------
(* validateAuthorizationsField *)

Error(msg) == [msg |-> msg, desc |-> <<>>, what |-> ""]

InvalidDescription == "'{{key}}' contains an invalid authorization description"
UsernameNotString == "All usernames in '{{key}}' must be strings"
UsernameApi == "'{{key}}' may not contain an 'api' username"
UsernameMissing == "All objects in '{{key}}' must contain the 'username' key"
PasswordNotString == "All passwords in '{{key}}' must be strings"
NotBoth == "Entries in '{{key}}' must contain either the 'password' or the 'password_file' field, but not both"
PasswordFileNotString == "All 'password_file' fields in '{{key}}' must be strings"
NeitherPassword == "All objects in '{{key}}' must contain either the 'password' or 'password_file' key"
BadLevel == "All 'level' fields in '{{key}}' must be either 'readonly' or 'full'"
BadType == "'{{key}}' may only contain strings or objects"

\* message: prefix + " (" + auth.asString() + "): " + e.what()
DescriptionError(s, what) == [msg |-> InvalidDescription, desc |-> s, what |-> what]

usernameErrors(auth) ==
    IF isMember(auth, "username")
    THEN IF auth.members["username"].type # "string"
         THEN <<Error(UsernameNotString)>>
         ELSE IF auth.members["username"].str = <<"api">>
         THEN <<Error(UsernameApi)>>
         ELSE <<>>
    ELSE <<Error(UsernameMissing)>>

passwordErrors(auth) ==
    IF isMember(auth, "password")
    THEN (IF auth.members["password"].type # "string"
          THEN <<Error(PasswordNotString)>> ELSE <<>>)
         \o (IF isMember(auth, "password_file")
             THEN <<Error(NotBoth)>> ELSE <<>>)
    ELSE IF isMember(auth, "password_file")
    THEN IF auth.members["password_file"].type # "string"
         THEN <<Error(PasswordFileNotString)>> ELSE <<>>
    ELSE <<Error(NeitherPassword)>>

levelErrors(auth) ==
    IF isMember(auth, "level")
    THEN IF \/ auth.members["level"].type # "string"
            \/ /\ auth.members["level"].str # <<"readonly">>
               /\ auth.members["level"].str # <<"full">>
         THEN <<Error(BadLevel)>>
         ELSE <<>>
    ELSE <<>>

\* Variant: the call of the parser is not wrapped in a try block.
entryErrorsWithoutTry(auth) ==
    IF isString(auth)
    THEN [exception |-> parseApiAccountDescription(auth.str).exception,
          errors |-> <<>>]
    ELSE IF isObject(auth)
    THEN [exception |-> NoException,
          errors |-> usernameErrors(auth) \o passwordErrors(auth) \o levelErrors(auth)]
    ELSE [exception |-> NoException, errors |-> <<Error(BadType)>>]

\* The body of the loop over the array: the errors one entry adds, or the
\* exception that leaves the function (the try block catches ArgumentException
\* only).
entryErrors(auth) ==
    IF isString(auth)
    THEN LET r == parseApiAccountDescription(auth.str)
         IN  IF r.exception = ArgumentException
             THEN [exception |-> NoException,
                   errors |-> <<DescriptionError(auth.str, r.what)>>]
             ELSE [exception |-> r.exception, errors |-> <<>>]
    ELSE IF isObject(auth)
    THEN [exception |-> NoException,
          errors |-> usernameErrors(auth) \o passwordErrors(auth) \o levelErrors(auth)]
    ELSE [exception |-> NoException, errors |-> <<Error(BadType)>>]

RECURSIVE collectErrors(_)
collectErrors(items) ==
    IF items = <<>>
    THEN [exception |-> NoException, errors |-> <<>>]
    ELSE LET first == entryErrors(Head(items))
             rest == collectErrors(Tail(items))
         IN  IF first.exception # NoException
             THEN [exception |-> first.exception, errors |-> <<>>]
             ELSE [exception |-> rest.exception, errors |-> first.errors \o rest.errors]

\* ConfigKit::deduplicateErrors: identical messages collapse to the first.
RECURSIVE deduplicateErrors(_)
deduplicateErrors(errors) ==
    IF errors = <<>> THEN <<>>
    ELSE LET init == deduplicateErrors(SubSeq(errors, 1, Len(errors) - 1))
             last == errors[Len(errors)]
         IN  IF \E i \in 1..Len(init) : init[i] = last
             THEN init
             ELSE Append(init, last)

\* The whole function: the exception it ends with, if any, and the caller's
\* error vector afterwards.
validateAuthorizationsField(value, errorsBefore) ==
    IF isNull(value)
    THEN [exception |-> NoException, outputErrors |-> errorsBefore]
    ELSE LET r == collectErrors(value.items)
         IN  IF r.exception # NoException
             THEN [exception |-> r.exception, outputErrors |-> errorsBefore]
             ELSE [exception |-> NoException,
                   outputErrors |-> errorsBefore \o deduplicateErrors(r.errors)]

----------------------------------------------------------------------------
(* normalizeApiAccountJson, normalizeApiAccountsJson *)

BaseDir == <<"/", "cwd">>

isAbsolute(path) == path # <<>> /\ Head(path) = "/"

\* absolutizePath: a path that starts at the root stays, any other path is
\* resolved against the working directory.
absolutizePath(path) ==
    IF isAbsolute(path) THEN path
    ELSE IF path = <<>> THEN BaseDir
    ELSE BaseDir \o <<"/">> \o path

\* doc[k] = v on a copy of the object
SetMember(m, k, v) == [x \in DOMAIN m \cup {k} |-> IF x = k THEN v ELSE m[x]]

\* Variant: an object without a level is returned without one.
normalizeWithoutDefaultLevel(json) ==
    IF isString(json)
    THEN parseApiAccountDescription(json.str)
    ELSE IF ~isObject(json)
    THEN Thrown("Json::LogicError", "")
    ELSE Returned(IF isMember(json, "password_file")
                  THEN SetMember(json.members, "password_file",
                           Str(absolutizePath(json.members["password_file"].str)))
                  ELSE json.members)

\* Variant: the result is built afresh from the known fields, not from a copy
\* of the object.
normalizeKnownFieldsOnly(json) ==
    IF isString(json)
    THEN parseApiAccountDescription(json.str)
    ELSE IF ~isObject(json)
    THEN Thrown("Json::LogicError", "")
    ELSE Returned(
           [k \in (DOMAIN json.members \cap {"username", "password", "password_file"})
                     \cup {"level"} |->
               IF k = "password_file"
               THEN Str(absolutizePath(json.members["password_file"].str))
               ELSE IF k = "level"
               THEN (IF isMember(json, "level") THEN json.members["level"]
                     ELSE Str(<<"full">>))
               ELSE json.members[k]])

normalizeApiAccountJson(json) ==
    IF isString(json)
    THEN parseApiAccountDescription(json.str)
    ELSE IF ~isObject(json)
    THEN Thrown("Json::LogicError", "")   \* isMember() on a value that is no object
    ELSE LET doc1 == IF isMember(json, "password_file")
                     THEN SetMember(json.members, "password_file",
                              Str(absolutizePath(json.members["password_file"].str)))
                     ELSE json.members
             doc2 == IF ~isMember(json, "level")
                     THEN SetMember(doc1, "level", Str(<<"full">>))
                     ELSE doc1
         IN  Returned(doc2)

ItemsReturned(items) == [exception |-> NoException, what |-> "", items |-> items]
ItemsThrown(type, what) == [exception |-> type, what |-> what, items |-> <<>>]

RECURSIVE normalizeItems(_)
normalizeItems(items) ==
    IF items = <<>>
    THEN ItemsReturned(<<>>)
    ELSE LET first == normalizeApiAccountJson(Head(items))
             rest == normalizeItems(Tail(items))
         IN  IF first.exception # NoException
             THEN ItemsThrown(first.exception, first.what)
             ELSE IF rest.exception # NoException
             THEN rest
             ELSE ItemsReturned(<<ObjectEntry(first.json)>> \o rest.items)

ValueReturned(value) == [exception |-> NoException, what |-> "", value |-> value]
ValueThrown(type, what) == [exception |-> type, what |-> what, value |-> NullValue]
ValueNotRun == [exception |-> "not run", what |-> "", value |-> NullValue]

\* A copy of the array with every element replaced; a null value has no
\* elements and comes back as it is.
normalizeApiAccountsJson(json) ==
    LET r == normalizeItems(json.items)
    IN  IF r.exception # NoException
        THEN ValueThrown(r.exception, r.what)
        ELSE ValueReturned([type |-> json.type, items |-> r.items])

----------------------------------------------------------------------------
(* The configuration run: validate config[key], then normalize it *)

DescriptionStrings ==
    { <<"u", ":", "p">>, <<"u", ":", "/", "p">>,
      <<"readonly", ":", "u", ":", "p">>, <<"full", ":", "p", ":", "/", "p">>,
      <<"api", ":", "p">>, <<"full", ":", "api", ":", "p">>,
      <<"u", ":", "u", ":", "p">>, <<"u">>, <<>>,
      <<"u", ":", "u", ":", "u", ":", "p">> }

RawEntries ==
    {StringEntry(s) : s \in DescriptionStrings}
    \cup ObjectsOver({Str(<<"u">>), Str(<<"api">>)},
                     {Absent, Str(<<"x">>)},
                     {Absent, Str(<<"p">>), Str(<<"/", "p">>)},
                     {Absent, Str(<<"readonly">>), Str(<<"u">>)},
                     {Absent})
    \cup {NumberEntry}

AllObjects ==
    ObjectsOver({Absent, Str(<<"u">>), Str(<<"api">>), Number},
                {Absent, Str(<<"x">>), Number},
                {Absent, Str(<<"p">>), Str(<<"/", "p">>), Number},
                {Absent, Str(<<"readonly">>), Str(<<"full">>), Str(<<"u">>), Number},
                {Absent, Str(<<"n">>)})

RECURSIVE ListsOver(_, _)
ListsOver(S, n) ==
    IF n = 0 THEN {<<>>}
    ELSE LET shorter == ListsOver(S, n - 1)
         IN  shorter \cup {Append(l, e) : l \in {x \in shorter : Len(x) = n - 1}, e \in S}

ValidationNotRun == [exception |-> "not run"]

IdleParser ==
    /\ description = <<>>
    /\ parsed = NotRun

IdleConfig ==
    /\ config = NullValue
    /\ validation = ValidationNotRun
    /\ outputErrors = <<>>
    /\ normalized = ValueNotRun
    /\ renormalized = ValueNotRun

InitConfigWith(values) ==
    /\ config \in values
    /\ validation = ValidationNotRun
    /\ outputErrors = <<>>
    /\ normalized = ValueNotRun
    /\ renormalized = ValueNotRun

Validate ==
    /\ validation = ValidationNotRun
    /\ LET r == validateAuthorizationsField(config, outputErrors)
       IN  /\ validation' = [exception |-> r.exception]
           /\ outputErrors' = r.outputErrors
    /\ UNCHANGED <<config, normalized, renormalized>>
    /\ UNCHANGED <<parserVars, ctorVars, dbVars>>

Normalize ==
    /\ validation # ValidationNotRun
    /\ normalized = ValueNotRun
    /\ normalized' = normalizeApiAccountsJson(config)
    /\ UNCHANGED <<config, validation, outputErrors, renormalized>>
    /\ UNCHANGED <<parserVars, ctorVars, dbVars>>

Renormalize ==
    /\ normalized.exception = NoException
    /\ renormalized = ValueNotRun
    /\ renormalized' = normalizeApiAccountsJson(normalized.value)
    /\ UNCHANGED <<config, validation, outputErrors, normalized>>
    /\ UNCHANGED <<parserVars, ctorVars, dbVars>>

----------------------------------------------------------------------------
(* The parser run *)

Parse ==
    /\ parsed = NotRun
    /\ parsed' = parseApiAccountDescription(description)
    /\ UNCHANGED description
    /\ UNCHANGED <<configVars, ctorVars, dbVars>>

----------------------------------------------------------------------------
(* ApiAccount, ApiAccountDatabase: construction *)

Whitespace == {" "}

\* readAll(filename): the whole contents, or a failure when the file cannot
\* be read.
readAll(path, fs) ==
    IF path \in DOMAIN fs /\ fs[path].readable
    THEN [exception |-> NoException, data |-> fs[path].data]
    ELSE [exception |-> "FileSystemException", data |-> <<>>]

\* strip(str): without the leading and the trailing whitespace.
RECURSIVE strip(_)
strip(str) ==
    IF str = <<>> THEN <<>>
    ELSE IF Head(str) \in Whitespace THEN strip(Tail(str))
    ELSE IF str[Len(str)] \in Whitespace THEN strip(SubSeq(str, 1, Len(str) - 1))
    ELSE str

NoAccount == [username |-> <<>>, password |-> <<>>, readonly |-> FALSE]

\* The constructor of ApiAccount: the account, or the exception of readAll.
ApiAccount(doc, fs) ==
    LET username == doc.members["username"].str
        readonly == doc.members["level"].str = <<"readonly">>
    IN  IF isMember(doc, "password")
        THEN [exception |-> NoException,
              account |-> [username |-> username,
                           password |-> doc.members["password"].str,
                           readonly |-> readonly]]
        ELSE LET file == readAll(doc.members["password_file"].str, fs)
             IN  IF file.exception # NoException
                 THEN [exception |-> file.exception, account |-> NoAccount]
                 ELSE [exception |-> NoException,
                       account |-> [username |-> username,
                                    password |-> strip(file.data),
                                    readonly |-> readonly]]

\* Variant: a record whose password file cannot be read is left out.
RECURSIVE pushReadableAccounts(_, _, _)
pushReadableAccounts(vector, items, fs) ==
    IF items = <<>>
    THEN [exception |-> NoException, exists |-> TRUE, database |-> vector]
    ELSE LET a == ApiAccount(Head(items), fs)
         IN  IF a.exception # NoException
             THEN pushReadableAccounts(vector, Tail(items), fs)
             ELSE pushReadableAccounts(Append(vector, a.account), Tail(items), fs)

\* The loop of the constructor of ApiAccountDatabase over the array, given the
\* vector built so far: the finished vector, or the exception that ends the
\* constructor (the object under construction is then destroyed).
RECURSIVE pushAccounts(_, _, _)
pushAccounts(vector, items, fs) ==
    IF items = <<>>
    THEN [exception |-> NoException, exists |-> TRUE, database |-> vector]
    ELSE LET a == ApiAccount(Head(items), fs)
         IN  IF a.exception # NoException
             THEN [exception |-> a.exception, exists |-> FALSE, database |-> <<>>]
             ELSE pushAccounts(Append(vector, a.account), Tail(items), fs)

ApiAccountDatabase(auths, fs) == pushAccounts(<<>>, auths.items, fs)

NotBuilt == [exception |-> "not run", exists |-> FALSE, database |-> <<>>]

Paths == {<<"/", "p">>, <<"/", "q">>}

FileStates ==
    {[readable |-> FALSE, data |-> <<>>],
     [readable |-> TRUE, data |-> <<" ", "x", " ">>],
     [readable |-> TRUE, data |-> <<"y", " ", "z">>]}

NormalizedRecords ==
    ObjectsOver({Str(<<"u">>), Str(<<"v">>)},
                {Str(<<"x">>)}, {Absent},
                {Str(<<"readonly">>), Str(<<"full">>)}, {Absent})
    \cup ObjectsOver({Str(<<"u">>), Str(<<"v">>)},
                     {Absent}, {Str(path) : path \in Paths},
                     {Str(<<"readonly">>), Str(<<"full">>)}, {Absent})

IdleCtor ==
    /\ authorizations = Array(<<>>)
    /\ files = [path \in Paths |-> [readable |-> FALSE, data |-> <<>>]]
    /\ built = NotBuilt

Construct ==
    /\ built = NotBuilt
    /\ built' = ApiAccountDatabase(authorizations, files)
    /\ UNCHANGED <<authorizations, files>>
    /\ UNCHANGED <<parserVars, configVars, dbVars>>

----------------------------------------------------------------------------
(* ApiAccountDatabase: empty, lookup, swap *)

Accounts ==
    {[username |-> <<"u">>, password |-> <<"x">>, readonly |-> FALSE],
     [username |-> <<"u">>, password |-> <<"y">>, readonly |-> TRUE],
     [username |-> <<"v">>, password |-> <<"x">>, readonly |-> TRUE]}

\* The accounts of the database on the other side of a swap.
OtherAccounts ==
    {[username |-> <<"v">>, password |-> <<"x">>, readonly |-> TRUE],
     [username |-> <<"u">>, password |-> <<"z">>, readonly |-> FALSE]}

Usernames == {<<"u">>, <<"v">>}

Readers == {"r1", "r2"}

NULL == 0

empty(vector) == Len(vector) = 0

\* Variant: the loop stops one element short of the end.
loopStepStoppingEarly(vector, it, username) ==
    IF it >= Len(vector)
    THEN [pc |-> "returned", it |-> NULL]
    ELSE IF vector[it].username = username
    THEN [pc |-> "returned", it |-> it]
    ELSE [pc |-> "loop", it |-> it + 1]

\* One pass through the loop of lookup(): the iterator has reached the end
\* (return NULL), points at a match (return it), or moves on.
loopStep(vector, it, username) ==
    IF it = Len(vector) + 1
    THEN [pc |-> "returned", it |-> NULL]
    ELSE IF vector[it].username = username
    THEN [pc |-> "returned", it |-> it]
    ELSE [pc |-> "loop", it |-> it + 1]

RECURSIVE lookupFrom(_, _, _)
lookupFrom(vector, it, username) ==
    LET s == loopStep(vector, it, username)
    IN  IF s.pc = "returned" THEN s.it ELSE lookupFrom(vector, s.it, username)

\* lookup() run without interruption: the position of the account it returns,
\* NULL for none.
lookup(vector, username) == lookupFrom(vector, 1, username)

\* Variant: the database takes over the other's buffer and gives nothing back.
swapOneWay(db) == [a |-> db.b, b |-> db.b]

\* database.swap(other.database): the vectors exchange their buffers.
swap(db) == [a |-> db.b, b |-> db.a]

IdleReader ==
    [pc |-> "idle", username |-> <<>>, endBuf |-> 0, itBuf |-> 0, it |-> 0,
     isEmpty |-> FALSE, undefined |-> FALSE]

IdleDb ==
    /\ storage = <<(<<>>), (<<>>)>>
    /\ database = [a |-> 1, b |-> 2]
    /\ readers = [r \in Readers |-> IdleReader]

\* lookup(username) is entered: end = database.end()
LookupCall(r, username) ==
    /\ readers[r].pc = "idle"
    /\ readers' = [readers EXCEPT ![r] =
           [IdleReader EXCEPT !.pc = "called", !.username = username,
                              !.endBuf = database.a]]
    /\ UNCHANGED <<storage, database>>
    /\ UNCHANGED <<parserVars, configVars, ctorVars>>

\* it = database.begin()
LookupBegin(r) ==
    /\ readers[r].pc = "called"
    /\ readers' = [readers EXCEPT ![r].pc = "loop", ![r].itBuf = database.a,
                                  ![r].it = 1]
    /\ UNCHANGED <<storage, database>>
    /\ UNCHANGED <<parserVars, configVars, ctorVars>>

\* Variant: a lookup moves the account it finds to the front of the vector.
LookupIterateMovingToFront(r) ==
    /\ readers[r].pc = "loop"
    /\ readers[r].itBuf = readers[r].endBuf
    /\ LET buf == readers[r].itBuf
           vector == storage[buf]
           s == loopStep(vector, readers[r].it, readers[r].username)
       IN  /\ readers' = [readers EXCEPT ![r].pc = s.pc, ![r].it = s.it]
           /\ storage' =
                  IF s.pc = "returned" /\ s.it > 1
                  THEN [storage EXCEPT ![buf] =
                           [i \in DOMAIN vector |->
                               IF i = 1 THEN vector[s.it]
                               ELSE IF i = s.it THEN vector[1]
                               ELSE vector[i]]]
                  ELSE storage
    /\ UNCHANGED database
    /\ UNCHANGED <<parserVars, configVars, ctorVars>>

\* One pass through the loop.
LookupIterate(r) ==
    /\ readers[r].pc = "loop"
    /\ readers[r].itBuf = readers[r].endBuf
    /\ LET s == loopStep(storage[readers[r].itBuf], readers[r].it, readers[r].username)
       IN  readers' = [readers EXCEPT ![r].pc = s.pc, ![r].it = s.it]
    /\ UNCHANGED <<storage, database>>
    /\ UNCHANGED <<parserVars, configVars, ctorVars>>

\* The loop compares an iterator of one buffer with the end of the other (a
\* swap ran between the two reads of the vector): undefined behaviour, the
\* call may return anything.
LookupUndefined(r) ==
    /\ readers[r].pc = "loop"
    /\ readers[r].itBuf # readers[r].endBuf
    /\ \E it \in 0..(Len(storage[1]) + Len(storage[2])) :
           readers' = [readers EXCEPT ![r].pc = "returned", ![r].it = it,
                                      ![r].undefined = TRUE]
    /\ UNCHANGED <<storage, database>>
    /\ UNCHANGED <<parserVars, configVars, ctorVars>>

\* empty() is called and answers.
EmptyCall(r) ==
    /\ readers[r].pc = "idle"
    /\ readers' = [readers EXCEPT ![r] =
           [IdleReader EXCEPT !.pc = "answered", !.itBuf = database.a,
                              !.isEmpty = empty(storage[database.a])]]
    /\ UNCHANGED <<storage, database>>
    /\ UNCHANGED <<parserVars, configVars, ctorVars>>

\* The caller takes the result.
Return(r) ==
    /\ readers[r].pc \in {"returned", "answered"}
    /\ readers' = [readers EXCEPT ![r] = IdleReader]
    /\ UNCHANGED <<storage, database>>
    /\ UNCHANGED <<parserVars, configVars, ctorVars>>

\* a.swap(b)
Swap ==
    /\ database' = swap(database)
    /\ UNCHANGED <<storage, readers>>
    /\ UNCHANGED <<parserVars, configVars, ctorVars>>

----------------------------------------------------------------------------
(* Specifications *)

\* The configuration run on arrays of raw entries.
Init ==
    /\ InitConfigWith({NullValue} \cup {Array(l) : l \in ListsOver(RawEntries, MaxEntries)})
    /\ IdleParser /\ IdleCtor /\ IdleDb

Next == Validate \/ Normalize \/ Renormalize

Spec == Init /\ [][Next]_vars

\* The configuration run on every one-object array.
InitObject ==
    /\ InitConfigWith({Array(<<e>>) : e \in AllObjects})
    /\ IdleParser /\ IdleCtor /\ IdleDb

NextObject == Validate \/ Normalize \/ Renormalize

SpecObject == InitObject /\ [][NextObject]_vars

\* The parser on every description string.
InitParse ==
    /\ description \in Strings
    /\ parsed = NotRun
    /\ IdleConfig /\ IdleCtor /\ IdleDb

NextParse == Parse

SpecParse == InitParse /\ [][NextParse]_vars

\* The constructor of the database.
InitCtor ==
    /\ authorizations \in {Array(l) : l \in ListsOver(NormalizedRecords, MaxRecords)}
    /\ files \in [Paths -> FileStates]
    /\ built = NotBuilt
    /\ IdleParser /\ IdleConfig /\ IdleDb

NextCtor == Construct

SpecCtor == InitCtor /\ [][NextCtor]_vars

\* Two databases, threads that call lookup() and empty() on the first, and
\* swaps of the two.
InitDb ==
    /\ storage \in {<<a, b>> : a \in ListsOver(Accounts, MaxAccounts),
                               b \in ListsOver(OtherAccounts, MaxOther)}
    /\ database = [a |-> 1, b |-> 2]
    /\ readers = [r \in Readers |-> IdleReader]
    /\ IdleParser /\ IdleConfig /\ IdleCtor

NextDb ==
    \/ \E r \in Readers : \E username \in Usernames : LookupCall(r, username)
    \/ \E r \in Readers : LookupBegin(r)
    \/ \E r \in Readers : LookupIterate(r)
    \/ \E r \in Readers : LookupUndefined(r)
    \/ \E r \in Readers : EmptyCall(r)
    \/ \E r \in Readers : Return(r)
    \/ Swap

SpecDb == InitDb /\ [][NextDb]_vars

----------------------------------------------------------------------------
(* Properties *)

Segments == split(description, ":")

\* C1: parseApiAccountDescription succeeds exactly when the string has two
\* segments, or three of which the first is "readonly" or "full", and the
\* username segment is not "api"; it then returns username, password_file and
\* level as the segments give them ("full" for two segments); in every other
\* case it throws ArgumentException and returns nothing.
ParseContract ==
    parsed # NotRun =>
        LET n == Len(Segments)
            wellFormed == \/ n = 2
                          \/ n = 3 /\ Segments[1] \in {<<"readonly">>, <<"full">>}
            success == wellFormed /\ Segments[n - 1] # <<"api">>
        IN  /\ (parsed.exception = NoException) <=> success
            /\ success =>
                  /\ DOMAIN parsed.json = {"username", "password_file", "level"}
                  /\ parsed.json["username"] = Str(Segments[n - 1])
                  /\ parsed.json["password_file"] = Str(Segments[n])
                  /\ parsed.json["level"] =
                         Str(IF n = 2 THEN <<"full">> ELSE Segments[1])
            /\ ~success =>
                  /\ parsed.exception = ArgumentException
                  /\ parsed.json = EmptyObject

ParseContractWitness ==
    /\ parsed.exception = NoException
    /\ Len(Segments) = 3
    /\ Segments[1] = <<"readonly">>

ParseRejectsApiWitness ==
    /\ parsed.exception = ArgumentException
    /\ Len(Segments) = 3
    /\ Segments[2] = <<"api">>
    /\ Segments[1] = <<"full">>

Validated == validation # ValidationNotRun

Valid == Validated /\ validation.exception = NoException /\ outputErrors = <<>>

ErrorCount(msg) ==
    Cardinality({j \in DOMAIN outputErrors : outputErrors[j].msg = msg})

QuotingCount(s) ==
    Cardinality({j \in DOMAIN outputErrors :
                    /\ outputErrors[j].msg = InvalidDescription
                    /\ outputErrors[j].desc = s})

\* C2: validateAuthorizationsField never throws; a null value gives no error;
\* for every string entry the error vector holds exactly one error quoting
\* the string when the parser fails on it, and none when it parses.
ValidateStringEntries ==
    Validated =>
        /\ validation.exception = NoException
        /\ isNull(config) => outputErrors = <<>>
        /\ \A i \in DOMAIN config.items :
              isString(config.items[i]) =>
                  QuotingCount(config.items[i].str) =
                      IF parseApiAccountDescription(config.items[i].str).exception
                             # NoException
                      THEN 1 ELSE 0

ValidateStringEntriesWitness ==
    /\ Validated
    /\ Len(config.items) = 2
    /\ isString(config.items[1])
    /\ config.items[2] = config.items[1]
    /\ QuotingCount(config.items[1].str) = 1

ValidateNullWitness == Validated /\ isNull(config)

\* The rules of C3 an object entry can violate, with the error of each.
ViolatedRules(auth) ==
    LET m == auth.members
        has(k) == k \in DOMAIN m
        notString(k) == has(k) /\ m[k].type # "string"
    IN  (IF ~has("username") THEN {UsernameMissing} ELSE {})
        \cup (IF notString("username") THEN {UsernameNotString} ELSE {})
        \cup (IF has("username") /\ m["username"] = Str(<<"api">>)
              THEN {UsernameApi} ELSE {})
        \cup (IF notString("password") THEN {PasswordNotString} ELSE {})
        \cup (IF notString("password_file") THEN {PasswordFileNotString} ELSE {})
        \cup (IF has("password") /\ has("password_file") THEN {NotBoth} ELSE {})
        \cup (IF ~has("password") /\ ~has("password_file")
              THEN {NeitherPassword} ELSE {})
        \cup (IF has("level") /\ m["level"] \notin {Str(<<"readonly">>), Str(<<"full">>)}
              THEN {BadLevel} ELSE {})

ObjectMessages ==
    {UsernameMissing, UsernameNotString, UsernameApi, PasswordNotString,
     PasswordFileNotString, NotBoth, NeitherPassword, BadLevel}

\* C3: for an object entry the validator records one error for each rule the
\* entry violates and none for a rule it satisfies; a password_file that is
\* no string is reported whether or not password is present too.
ObjectRulesAccumulate ==
    (Validated /\ Len(config.items) = 1 /\ isObject(config.items[1])) =>
        \A msg \in ObjectMessages :
            ErrorCount(msg) =
                IF msg \in ViolatedRules(config.items[1]) THEN 1 ELSE 0

UsernameOf(auth) ==
    IF isString(auth)
    THEN LET segs == split(auth.str, ":") IN Str(segs[Len(segs) - 1])
    ELSE auth.members["username"]

HasNoLevel(auth) ==
    IF isString(auth) THEN Len(split(auth.str, ":")) = 2
    ELSE ~isMember(auth, "level")

\* C4: on an array the validator has no error for, normalizeApiAccountsJson
\* returns an array of the same length and order whose elements are objects
\* with a string username other than "api", exactly one of password and
\* password_file, a string, and a level "readonly" or "full", "full" when the
\* input entry had none.
NormalizeValidList ==
    (Valid /\ ~isNull(config) /\ normalized # ValueNotRun) =>
        /\ normalized.exception = NoException
        /\ Len(normalized.value.items) = Len(config.items)
        /\ \A i \in DOMAIN config.items :
              LET in == config.items[i]
                  out == normalized.value.items[i]
                  m == out.members
              IN  /\ isObject(out)
                  /\ "username" \in DOMAIN m
                  /\ m["username"].type = "string"
                  /\ m["username"].str # <<"api">>
                  /\ m["username"] = UsernameOf(in)
                  /\ ("password" \in DOMAIN m) # ("password_file" \in DOMAIN m)
                  /\ \A k \in {"password", "password_file"} \cap DOMAIN m :
                        m[k].type = "string"
                  /\ "level" \in DOMAIN m
                  /\ m["level"] \in {Str(<<"readonly">>), Str(<<"full">>)}
                  /\ HasNoLevel(in) => m["level"] = Str(<<"full">>)

NormalizeValidListWitness ==
    /\ Valid
    /\ normalized.exception = NoException
    /\ Len(config.items) = 2
    /\ isString(config.items[1])
    /\ isObject(config.items[2])
    /\ ~isMember(config.items[2], "level")
    /\ UsernameOf(config.items[1]) # UsernameOf(config.items[2])

\* C5: after the normalization of a valid array no record has a relative
\* password_file.
NormalizedPasswordFileAbsolute ==
    (Valid /\ normalized.exception = NoException) =>
        \A i \in DOMAIN normalized.value.items :
            LET m == normalized.value.items[i].members
            IN  "password_file" \in DOMAIN m => isAbsolute(m["password_file"].str)

\* C10: the normalization of a valid object entry changes nothing but
\* password_file, made absolute, and level, inserted as "full" when absent,
\* and normalizing the result again gives the same result.
NormalizeObjectIdempotent ==
    (Valid /\ Len(config.items) = 1 /\ isObject(config.items[1])
           /\ normalized # ValueNotRun) =>
        /\ normalized.exception = NoException
        /\ LET in == config.items[1].members
               out == normalized.value.items[1].members
           IN  /\ DOMAIN out = DOMAIN in \cup {"level"}
               /\ \A k \in DOMAIN in \ {"password_file", "level"} : out[k] = in[k]
               /\ "level" \in DOMAIN in => out["level"] = in["level"]
               /\ "level" \notin DOMAIN in => out["level"] = Str(<<"full">>)
               /\ "password_file" \in DOMAIN in =>
                     /\ out["password_file"].type = "string"
                     /\ isAbsolute(out["password_file"].str)
        /\ renormalized # ValueNotRun => renormalized = normalized

NormalizeObjectIdempotentWitness ==
    /\ Valid
    /\ renormalized.exception = NoException
    /\ Len(config.items) = 1
    /\ isObject(config.items[1])
    /\ DOMAIN config.items[1].members = {"username", "password_file", "note"}
    /\ ~isAbsolute(config.items[1].members["password_file"].str)

NeedsFile(doc) == ~isMember(doc, "password")

Unreadable(doc) ==
    NeedsFile(doc) /\ ~files[doc.members["password_file"].str].readable

\* C7: the constructor yields one account per record, in the order of the
\* records, with the record's username, readonly exactly for level
\* "readonly", and the record's password or else the stripped contents of its
\* password file; when a password file cannot be read the constructor throws
\* and no database exists, not even one with the accounts built so far.
ConstructContract ==
    built # NotBuilt =>
        LET items == authorizations.items
        IN  IF \E i \in DOMAIN items : Unreadable(items[i])
            THEN /\ built.exception # NoException
                 /\ ~built.exists
                 /\ built.database = <<>>
            ELSE /\ built.exception = NoException
                 /\ built.exists
                 /\ Len(built.database) = Len(items)
                 /\ \A i \in DOMAIN items :
                       LET m == items[i].members
                           account == built.database[i]
                       IN  /\ account.username = m["username"].str
                           /\ account.readonly <=> m["level"].str = <<"readonly">>
                           /\ account.password =
                                  IF "password" \in DOMAIN m
                                  THEN m["password"].str
                                  ELSE strip(files[m["password_file"].str].data)

ConstructContractWitness ==
    /\ built.exception = "FileSystemException"
    /\ Len(authorizations.items) = 2
    /\ ~NeedsFile(authorizations.items[1])
    /\ Unreadable(authorizations.items[2])

ConstructFromFileWitness ==
    /\ built.exists
    /\ Len(built.database) = 2
    /\ NeedsFile(authorizations.items[1])
    /\ built.database[1].password = <<"x">>
    /\ built.database[1].readonly
    /\ ~built.database[2].readonly

Matches(vector, username) ==
    {i \in DOMAIN vector : vector[i].username = username}

\* C6: a lookup returns the account at the smallest index whose username is
\* the one asked for, and NULL exactly when no account has that username;
\* empty() answers true exactly for a database without accounts.
LookupFirstMatch ==
    \A r \in Readers :
        LET reader == readers[r]
            vector == storage[reader.itBuf]
            matches == Matches(vector, reader.username)
        IN  /\ (reader.pc = "returned" /\ ~reader.undefined) =>
                  /\ (reader.it = NULL) <=> (matches = {})
                  /\ reader.it # NULL =>
                        /\ reader.it \in matches
                        /\ \A j \in matches : reader.it <= j
            /\ reader.pc = "answered" =>
                  (reader.isEmpty <=> Len(vector) = 0)

LookupFirstMatchWitness ==
    \E r \in Readers :
        /\ readers[r].pc = "returned"
        /\ ~readers[r].undefined
        /\ readers[r].it = 1
        /\ Cardinality(Matches(storage[readers[r].itBuf], readers[r].username)) = 2
        /\ storage[readers[r].itBuf][1] # storage[readers[r].itBuf][2]

LookupNotFoundWitness ==
    \E r \in Readers :
        /\ readers[r].pc = "returned"
        /\ ~readers[r].undefined
        /\ readers[r].it = NULL
        /\ Len(storage[readers[r].itBuf]) = 2

\* C8: a swap exchanges the whole contents: afterwards each database holds
\* exactly the sequence of accounts the other held before.
SwapExchanges ==
    [][Swap => /\ storage'[database'.a] = storage[database.b]
               /\ storage'[database'.b] = storage[database.a]]_vars

SwapExchangesWitness ==
    /\ database = [a |-> 2, b |-> 1]
    /\ storage[database.b] # <<>>
    /\ storage[database.a] = <<>>

ReaderMoves ==
    \E r \in Readers :
        /\ readers'[r] # readers[r]
        /\ readers[r].pc \in {"idle", "called", "loop"}
        /\ readers'[r].pc \in {"called", "loop", "returned"}

====
